---------------------------- MODULE Spec2Model ----------------------------
(***************************************************************************)
(* A model of the ExperiFlow reverse-proxy core: the orchestrator          *)
(* (middleware.ModifyResponse / applyExperiment / getOrAssignVariant), the *)
(* variant assigner (variant.AssignVariant) and the DOM mutation engine    *)
(* (transform.ApplyTransformations).                                       *)
(*                                                                         *)
(* Strings are sequences over an abstract alphabet: the punctuation the    *)
(* code inspects (".", "#", "[", "]", "=", quotes, " ", ":", ";") is one   *)
(* letter each, and every other letter stands for an indivisible run of    *)
(* ordinary characters ("cta", "p", "Buy Now").  <<>> is the empty string. *)
(***************************************************************************)
EXTENDS Integers, Sequences, FiniteSets, TLC

(***************************************************************************)
(* Bounds of the model.                                                    *)
(***************************************************************************)
MaxExperiments == 2
\* calls of AssignVariant in one run of the assigner on its own
MaxCalls == 2
\* operations in one batch handed to ApplyTransformations on its own
MaxOps == 2
\* times the executions of one batch apply it, taken together
MaxRuns == 2

(***************************************************************************)
(* State.                                                                  *)
(***************************************************************************)
VARIABLES
    failOpen,       \* config.FailOpen
    experiments,    \* ExperiFlowMiddleware.experiments (the keys of the map)
    reqCookies,     \* the request's cookies, in order
    header,         \* resp.Header
    respBody,       \* the bytes behind resp.Body
    bodyState,      \* resp.Body as a reader: "origin" (the origin's stream,
                    \* unread), "memory" (a bytes.Reader over respBody,
                    \* unread), "drained" (read to the end and closed),
                    \* "broken" (the stream failed while it was read)
    contentLength,  \* resp.ContentLength
    pc,             \* where the request is
    pending,        \* experiments the range loop has not visited yet
    cur,            \* applyExperiment's locals: experimentID, variantID,
                    \* variantKey, isNew, the spec's operations, and whether
                    \* the deadline of ctx has passed
    result,         \* what ModifyResponse returned: "none", "nil", "err"
    calls,          \* per experiment: attempts made, the answers GetVariants
                    \* gave, the variantIDs GetTransformSpec was called with
    outcome,        \* per experiment: how its attempt ended ("none" before)
    origin,         \* the response as the origin sent it
    served,         \* what the client was sent (NoResponse before)
    session,        \* the client across requests: which request this is,
                    \* and the variants the request before assigned to it
    assignCase,     \* variant.Assigner called on its own: the variant list,
                    \* the salts of the processes, the HMACs computed so far,
                    \* the calls made, the state of math/rand
    domCase         \* the transform package called on its own

\* the state of a request in the middleware
middleware ==
    <<failOpen, experiments, reqCookies, header, respBody, bodyState,
      contentLength, pc, pending, cur, result, calls, outcome, origin, served,
      session>>

vars ==
    <<failOpen, experiments, reqCookies, header, respBody, bodyState,
      contentLength, pc, pending, cur, result, calls, outcome, origin, served,
      session, assignCase, domCase>>

\* what no step of the middleware writes
fixed ==
    <<failOpen, experiments, reqCookies, origin, session, assignCase, domCase>>

(***************************************************************************)
(* String helpers (package strings).                                       *)
(***************************************************************************)
RECURSIVE TrimLeft(_)
TrimLeft(s) ==
    IF s # <<>> /\ Head(s) = " " THEN TrimLeft(Tail(s)) ELSE s

RECURSIVE TrimRight(_)
TrimRight(s) ==
    IF s # <<>> /\ s[Len(s)] = " " THEN TrimRight(SubSeq(s, 1, Len(s) - 1)) ELSE s

\* strings.TrimSpace
TrimSpace(s) == TrimRight(TrimLeft(s))

\* strings.HasPrefix / strings.HasSuffix for a one-letter affix
HasPrefix(s, c) == s # <<>> /\ Head(s) = c
HasSuffix(s, c) == s # <<>> /\ s[Len(s)] = c

\* index of the first occurrence of letter c in s, 0 when absent
RECURSIVE IndexOf(_, _, _)
IndexOf(s, c, i) ==
    IF i > Len(s) THEN 0
    ELSE IF s[i] = c THEN i
    ELSE IndexOf(s, c, i + 1)

\* strings.SplitN(s, sep, 2) for a one-letter separator
SplitN2(s, sep) ==
    LET i == IndexOf(s, sep, 1)
    IN  IF i = 0 THEN <<s>>
        ELSE <<SubSeq(s, 1, i - 1), SubSeq(s, i + 1, Len(s))>>

\* strings.Fields: the maximal runs of non-space letters
RECURSIVE Fields(_)
Fields(s) ==
    LET t == TrimLeft(s)
        i == IndexOf(t, " ", 1)
    IN  IF t = <<>> THEN <<>>
        ELSE IF i = 0 THEN <<t>>
        ELSE <<SubSeq(t, 1, i - 1)>> \o Fields(SubSeq(t, i + 1, Len(t)))

\* strings.Trim(s, "\"'")
RECURSIVE TrimQuotes(_)
TrimQuotes(s) ==
    IF s # <<>> /\ Head(s) \in {"\"", "'"} THEN TrimQuotes(Tail(s))
    ELSE IF s # <<>> /\ s[Len(s)] \in {"\"", "'"}
         THEN TrimQuotes(SubSeq(s, 1, Len(s) - 1))
    ELSE s

(***************************************************************************)
(* The document tree (golang.org/x/net/html Node), as an arena: a document *)
(* is a sequence of nodes, a node's identity is its index, 0 is nil.       *)
(* Node 1 is the Document node.                                            *)
(***************************************************************************)
DocumentNode == "document"
ElementNode  == "element"
TextNode     == "text"

Nil == 0
Root == 1

MkNode(t, d, a, k, p) ==
    [type |-> t, data |-> d, attr |-> a, kids |-> k, parent |-> p]

Attr(k, v) == [key |-> k, val |-> v]

\* the void elements html.Render refuses to give children to
VoidElements == {<<"br">>, <<"img">>, <<"input">>, <<"meta">>, <<"hr">>}

RECURSIVE WithoutId(_, _)
WithoutId(seq, x) ==
    IF seq = <<>> THEN <<>>
    ELSE IF Head(seq) = x THEN WithoutId(Tail(seq), x)
    ELSE <<Head(seq)>> \o WithoutId(Tail(seq), x)

\* (*html.Node).RemoveChild
RemoveChild(doc, p, c) ==
    [doc EXCEPT ![p].kids = WithoutId(@, c), ![c].parent = Nil]

\* (*html.Node).AppendChild of a freshly allocated node
AppendNewChild(doc, p, t, d) ==
    LET id == Len(doc) + 1
    IN  Append([doc EXCEPT ![p].kids = Append(@, id)], MkNode(t, d, <<>>, <<>>, p))

RECURSIVE RemoveAllChildren(_, _)
RemoveAllChildren(doc, n) ==
    IF doc[n].kids = <<>> THEN doc
    ELSE RemoveAllChildren(RemoveChild(doc, n, Head(doc[n].kids)), n)

(***************************************************************************)
(* Selector resolution (operations.go, findNodesBySelector and helpers).   *)
(***************************************************************************)
RECURSIVE AttrIndex(_, _, _)
AttrIndex(attrs, key, i) ==
    IF i > Len(attrs) THEN 0
    ELSE IF attrs[i].key = key THEN i
    ELSE AttrIndex(attrs, key, i + 1)

getAttr(node, key) ==
    IF node.type # ElementNode THEN <<>>
    ELSE LET i == AttrIndex(node.attr, key, 1)
         IN  IF i = 0 THEN <<>> ELSE node.attr[i].val

hasAttr(node, key) ==
    /\ node.type = ElementNode
    /\ AttrIndex(node.attr, key, 1) # 0

hasClass(node, className) ==
    /\ node.type = ElementNode
    /\ LET classes == Fields(getAttr(node, <<"class">>))
       IN  \E i \in 1..Len(classes) : classes[i] = className

\* the matchFunc that findNodesBySelector builds for the (trimmed) selector
matchFunc(sel, node) ==
    IF HasPrefix(sel, ".") THEN hasClass(node, Tail(sel))
    ELSE IF HasPrefix(sel, "#") THEN getAttr(node, <<"id">>) = Tail(sel)
    ELSE IF HasPrefix(sel, "[") /\ HasSuffix(sel, "]")
         THEN LET attrStr == SubSeq(sel, 2, Len(sel) - 1)
                  parts   == SplitN2(attrStr, "=")
                  attrKey == TrimSpace(parts[1])
              IN  IF Len(parts) = 1 THEN hasAttr(node, attrKey)
                  ELSE getAttr(node, attrKey) = TrimQuotes(TrimSpace(parts[2]))
    ELSE node.type = ElementNode /\ node.data = sel

\* walk: pre-order, every node reachable from n once
RECURSIVE walk(_, _, _)
RECURSIVE walkKids(_, _, _)
walk(doc, sel, n) ==
    (IF matchFunc(sel, doc[n]) THEN <<n>> ELSE <<>>) \o walkKids(doc, sel, doc[n].kids)
walkKids(doc, sel, ks) ==
    IF ks = <<>> THEN <<>>
    ELSE walk(doc, sel, Head(ks)) \o walkKids(doc, sel, Tail(ks))

findNodesBySelector(doc, selector) == walk(doc, TrimSpace(selector), Root)

(***************************************************************************)
(* Mutations (operations.go).                                              *)
(***************************************************************************)
OpSetText  == "setText"
OpSetStyle == "setStyle"
OpSetAttr  == "setAttr"
OpSetHTML  == "setHTML"
OpRemove   == "remove"
OpHide     == "hide"
OpShow     == "show"

Op(t, sel, val, prop, prio) ==
    [type |-> t, selector |-> sel, value |-> val, property |-> prop, priority |-> prio]

\* setText that keeps the children the node has
setText_KeepChildren(doc, n, text) ==
    AppendNewChild(doc, n, TextNode, text)

\* setText: every child is removed, a new text node is appended
setText(doc, n, text) ==
    AppendNewChild(RemoveAllChildren(doc, n), n, TextNode, text)

\* strings.Split for a one-letter separator
RECURSIVE Split(_, _)
Split(s, sep) ==
    LET i == IndexOf(s, sep, 1)
    IN  IF i = 0 THEN <<s>>
        ELSE <<SubSeq(s, 1, i - 1)>> \o Split(SubSeq(s, i + 1, Len(s)), sep)

\* a map[string]string is a function from its keys; <<>> is the empty map
MapSet(m, k, v) == [x \in DOMAIN m \cup {k} |-> IF x = k THEN v ELSE m[x]]
MapDelete(m, k) == [x \in DOMAIN m \ {k} |-> m[x]]

\* setStyle, "Parse existing styles": the parts without a colon are dropped,
\* a property written twice keeps its last value
RECURSIVE parseStyles(_, _)
parseStyles(parts, styles) ==
    IF parts = <<>> THEN styles
    ELSE LET part == TrimSpace(Head(parts))
             kv == SplitN2(part, ":")
         IN  IF part = <<>> \/ Len(kv) # 2 THEN parseStyles(Tail(parts), styles)
             ELSE parseStyles(Tail(parts),
                              MapSet(styles, TrimSpace(kv[1]), TrimSpace(kv[2])))

\* the orders in which a range over a map with these keys can visit them:
\* Go leaves the order unspecified and randomizes it, so every order
RECURSIVE Orders(_)
Orders(keys) ==
    IF keys = {} THEN {<<>>}
    ELSE UNION {{<<k>> \o o : o \in Orders(keys \ {k})} : k \in keys}

\* setStyle, "Rebuild style string", the range visiting the keys in this order
RECURSIVE writeStyles(_, _)
writeStyles(styles, order) ==
    IF order = <<>> THEN <<>>
    ELSE Head(order) \o <<":", " ">> \o styles[Head(order)]
            \o (IF Tail(order) = <<>> THEN <<>>
                ELSE <<";", " ">> \o writeStyles(styles, Tail(order)))

\* setStyle: the trees it can leave, one for each order of the range
setStyle(doc, n, property, value) ==
    IF doc[n].type # ElementNode THEN {doc}
    ELSE LET i == AttrIndex(doc[n].attr, <<"style">>, 1)
             old == IF i = 0 THEN <<>>
                    ELSE parseStyles(Split(doc[n].attr[i].val, ";"), <<>>)
             styles == IF value = <<>> THEN MapDelete(old, property)
                       ELSE MapSet(old, property, value)
         IN  {IF i # 0
              THEN [doc EXCEPT ![n].attr[i].val = writeStyles(styles, order)]
              ELSE [doc EXCEPT ![n].attr =
                        Append(@, Attr(<<"style">>, writeStyles(styles, order)))] :
              order \in Orders(DOMAIN styles)}

setAttr(doc, n, key, value) ==
    IF doc[n].type # ElementNode THEN doc
    ELSE LET i == AttrIndex(doc[n].attr, key, 1)
         IN  IF i # 0 THEN [doc EXCEPT ![n].attr[i].val = value]
             ELSE [doc EXCEPT ![n].attr = Append(@, Attr(key, value))]

\* html.ParseFragment in the context of a div, each parsed node appended:
\* "<" name ">" opens an element (a void element has no content), "<" "/"
\* name ">" closes the innermost open one, any other letter is text and
\* joins the text before it.  open is the stack of open elements, the
\* target node at its bottom.
RECURSIVE appendFragment(_, _, _)
appendFragment(doc, open, content) ==
    LET parent == open[Len(open)]
        kids == doc[parent].kids
        last == IF kids = <<>> THEN Nil ELSE kids[Len(kids)]
    IN  IF content = <<>> THEN doc
        ELSE IF Len(content) >= 4 /\ content[1] = "<" /\ content[2] = "/"
                                  /\ content[4] = ">"
             THEN appendFragment(doc,
                                 IF Len(open) > 1 THEN SubSeq(open, 1, Len(open) - 1)
                                 ELSE open,
                                 SubSeq(content, 5, Len(content)))
        ELSE IF Len(content) >= 3 /\ content[1] = "<" /\ content[3] = ">"
             THEN LET d == AppendNewChild(doc, parent, ElementNode, <<content[2]>>)
                  IN  appendFragment(d,
                                     IF <<content[2]>> \in VoidElements THEN open
                                     ELSE Append(open, Len(d)),
                                     SubSeq(content, 4, Len(content)))
        ELSE IF last # Nil /\ doc[last].type = TextNode
             THEN appendFragment([doc EXCEPT ![last].data = Append(@, content[1])],
                                 open, Tail(content))
        ELSE appendFragment(AppendNewChild(doc, parent, TextNode, <<content[1]>>),
                            open, Tail(content))

setHTML(doc, n, htmlContent) ==
    appendFragment(RemoveAllChildren(doc, n), <<n>>, htmlContent)

\* removeNode that leaves the node where it is
removeNode_Noop(doc, n) == doc

removeNode(doc, n) ==
    IF doc[n].parent # Nil THEN RemoveChild(doc, doc[n].parent, n) ELSE doc

KnownOpTypes ==
    {OpSetText, OpSetStyle, OpSetAttr, OpSetHTML, OpRemove, OpHide, OpShow}

\* one iteration of applyOperation's loop over the resolved nodes: the trees
\* it can leave
applyToNode(doc, n, op) ==
    CASE op.type = OpSetText  -> {setText(doc, n, op.value)}
      [] op.type = OpSetStyle -> setStyle(doc, n, op.property, op.value)
      [] op.type = OpSetAttr  -> {setAttr(doc, n, op.property, op.value)}
      [] op.type = OpSetHTML  -> {setHTML(doc, n, op.value)}
      [] op.type = OpRemove   -> {removeNode(doc, n)}
      [] op.type = OpHide     -> setStyle(doc, n, <<"display">>, <<"none">>)
      [] op.type = OpShow     -> setStyle(doc, n, <<"display">>, <<>>)
      [] OTHER                -> {doc}

RECURSIVE applyToNodes(_, _, _)
applyToNodes(doc, nodes, op) ==
    IF nodes = <<>> THEN {doc}
    ELSE UNION {applyToNodes(d, Tail(nodes), op) :
                d \in applyToNode(doc, Head(nodes), op)}

\* applyOperation that resolves the selector again after its mutations and
\* mutates what it finds then
applyOperation_Reresolve(doc, op) ==
    LET nodes == findNodesBySelector(doc, op.selector)
    IN  IF nodes = <<>> THEN [docs |-> {doc}, err |-> TRUE]
        ELSE IF op.type \notin KnownOpTypes THEN [docs |-> {doc}, err |-> TRUE]
        ELSE [docs |-> UNION {applyToNodes(d, findNodesBySelector(d, op.selector), op) :
                              d \in applyToNodes(doc, nodes, op)},
              err |-> FALSE]

\* applyOperation: the node set is resolved once, before the first mutation;
\* err is TRUE for "no elements found" and for "unknown operation type"
\* (which returns at the first node, before any mutation).  docs are the
\* trees the operation can leave.
applyOperation(doc, op) ==
    LET nodes == findNodesBySelector(doc, op.selector)
    IN  IF nodes = <<>> THEN [docs |-> {doc}, err |-> TRUE]
        ELSE IF op.type \notin KnownOpTypes THEN [docs |-> {doc}, err |-> TRUE]
        ELSE [docs |-> applyToNodes(doc, nodes, op), err |-> FALSE]

\* the loop of ApplyTransformations over the trees the operations before
\* can have left
RECURSIVE applyAll(_, _)
applyAll(docs, operations) ==
    IF operations = <<>> THEN docs
    ELSE applyAll(UNION {applyOperation(d, Head(operations)).docs : d \in docs},
                  Tail(operations))

\* the operations in ascending order of priority (stable)
RECURSIVE SortByPriority(_)
SortByPriority(operations) ==
    IF operations = <<>> THEN <<>>
    ELSE LET rest == SortByPriority(Tail(operations))
             op == Head(operations)
         IN  SelectSeq(rest, LAMBDA o : o.priority < op.priority)
                \o <<op>>
                \o SelectSeq(rest, LAMBDA o : o.priority >= op.priority)

\* ApplyTransformations that consults the priority field
ApplyTransformations_ByPriority(doc, operations) ==
    [docs |-> applyAll({doc}, SortByPriority(operations)), err |-> FALSE]

\* the operations up to the first one that fails
RECURSIVE UntilError(_, _)
UntilError(doc, operations) ==
    IF operations = <<>> \/ applyOperation(doc, Head(operations)).err THEN <<>>
    ELSE <<Head(operations)>>
            \o UntilError(CHOOSE d \in applyOperation(doc, Head(operations)).docs : TRUE,
                          Tail(operations))

\* ApplyTransformations that returns the first error of an operation
ApplyTransformations_StopOnError(doc, operations) ==
    [docs |-> applyAll({doc}, UntilError(doc, operations)),
     err |-> Len(UntilError(doc, operations)) < Len(operations)]

\* ApplyTransformations: per-operation errors are logged and dropped; the
\* batch itself always returns nil.
ApplyTransformations(doc, operations) ==
    [docs |-> applyAll({doc}, operations), err |-> FALSE]

(***************************************************************************)
(* Bodies.  A body is the byte string a document is written as.  It is     *)
(* kept as the tree html.Parse builds from it, its length in bytes, and    *)
(* whether it is the exact output of html.Render (an origin's own bytes    *)
(* need not be: optional tags, a doctype, white space).                    *)
(***************************************************************************)
RECURSIVE preOrder(_, _)
RECURSIVE preOrderKids(_, _)
preOrder(doc, n) == <<n>> \o preOrderKids(doc, doc[n].kids)
preOrderKids(doc, ks) ==
    IF ks = <<>> THEN <<>>
    ELSE preOrder(doc, Head(ks)) \o preOrderKids(doc, Tail(ks))

\* html.Render fails on a void element that has child nodes
RenderFails(doc) ==
    LET reach == preOrder(doc, Root)
    IN  \E i \in 1..Len(reach) :
            /\ doc[reach[i]].type = ElementNode
            /\ doc[reach[i]].data \in VoidElements
            /\ doc[reach[i]].kids # <<>>

\* bytes html.Render writes for one node (its own tags or text)
NodeBytes(node) ==
    CASE node.type = DocumentNode -> 0
      [] node.type = TextNode     -> Len(node.data)
      [] node.type = ElementNode  ->
            IF node.data \in VoidElements THEN 1 + 2 * Len(node.attr)
            ELSE 2 + 2 * Len(node.attr)

RECURSIVE SumBytes(_, _)
SumBytes(doc, ids) ==
    IF ids = <<>> THEN 0
    ELSE NodeBytes(doc[Head(ids)]) + SumBytes(doc, Tail(ids))

\* the position of id x in the sequence ids (0 when absent)
RECURSIVE PosOf(_, _, _)
PosOf(ids, x, i) ==
    IF i > Len(ids) THEN 0
    ELSE IF ids[i] = x THEN i
    ELSE PosOf(ids, x, i + 1)

\* the tree a parser builds from rendered bytes: only the nodes that were
\* reachable from the root, numbered afresh in document order
Reparse(doc) ==
    LET reach == preOrder(doc, Root)
        renum(ks) == [j \in 1..Len(ks) |-> PosOf(reach, ks[j], 1)]
    IN  [i \in 1..Len(reach) |->
            LET nd == doc[reach[i]]
            IN  [nd EXCEPT !.kids = renum(nd.kids),
                           !.parent = IF nd.parent = Nil THEN Nil
                                      ELSE PosOf(reach, nd.parent, 1)]]

MkBody(tree, len, rendered) ==
    [tree |-> tree, len |-> len, rendered |-> rendered]

\* html.Parse(bytes.NewReader(body)): reading from memory cannot fail, so
\* the parser always returns a tree
Parse(body) == body.tree

\* transform.RenderHTML
RenderHTML(doc) ==
    IF RenderFails(doc) THEN [err |-> TRUE, body |-> MkBody(<<>>, 0, TRUE)]
    ELSE [err |-> FALSE,
          body |-> MkBody(Reparse(doc), SumBytes(doc, preOrder(doc, Root)), TRUE)]

(***************************************************************************)
(* Variant assignment (package variant).                                   *)
(***************************************************************************)
\* a transform.Variant; alloc100 is the number of hundredths the JSON
\* literal of TrafficAllocation names (0.1 is 10): the float64 field holds
\* the double nearest to alloc100/100.
Variant(id, name, isControl, alloc100) ==
    [id |-> id, name |-> name, isControl |-> isControl, alloc100 |-> alloc100]

\* A float64 sum "cumulative" is kept as the terms it was summed from, in
\* hundredths and in the order of the additions.
RECURSIVE SumOf(_)
SumOf(terms) == IF terms = <<>> THEN 0 ELSE Head(terms) + SumOf(Tail(terms))

\* IEEE-754 binary64, round to nearest even: the sums for which
\* cumulative*100 is not the whole number SumOf(terms) but the double next
\* above it (0.1+0.2 is 0.30000000000000004, times 100 is
\* 30.000000000000004) or next below it (0.7+0.2 is 0.8999999999999999,
\* times 100 is 89.99999999999999; 0.7+0.2+0.1 gives 99.99999999999999).
\* Every other sum of the allocation lists used here is exact.
RoundsAbove == {<<10, 20>>}
RoundsBelow == {<<70, 20>>, <<70, 20, 10>>}

\* float64(bucket) < cumulative*100
BucketBelow(bucket, terms) ==
    CASE terms \in RoundsAbove -> bucket <= SumOf(terms)
      [] terms \in RoundsBelow -> bucket <= SumOf(terms) - 1
      [] OTHER                 -> bucket < SumOf(terms)

\* getBucket with the error branch of ParseUint taken: a random bucket
getBucket_Random(hashInt) == assignCase.rnd

\* getBucket: the first 8 hex digits of the HMAC as an unsigned integer, mod
\* 100 (8 hex digits always parse, so rand.Intn is never reached)
getBucket(hashInt) == hashInt % 100

\* the loop of AssignVariant: the index of the first variant for which
\* float64(bucket) < cumulative*100, 0 when the loop runs out
RECURSIVE firstOver(_, _, _, _)
firstOver(variants, bucket, i, cumulative) ==
    IF i > Len(variants) THEN 0
    ELSE IF BucketBelow(bucket, Append(cumulative, variants[i].alloc100)) THEN i
    ELSE firstOver(variants, bucket, i + 1, Append(cumulative, variants[i].alloc100))

\* AssignVariant with the fallback on the last variant of the list
AssignVariant_FallbackLast(hashInt, variants) ==
    IF Len(variants) = 0 THEN 0
    ELSE IF Len(variants) = 1 THEN 1
    ELSE LET i == firstOver(variants, getBucket(hashInt), 1, <<>>)
         IN  IF i # 0 THEN i ELSE Len(variants)

\* AssignVariant: the index of the variant returned, 0 for nil
AssignVariant(hashInt, variants) ==
    IF Len(variants) = 0 THEN 0
    ELSE IF Len(variants) = 1 THEN 1
    ELSE LET i == firstOver(variants, getBucket(hashInt), 1, <<>>)
         IN  IF i # 0 THEN i ELSE 1

\* GetUserID: cookie value, else a hash of IP and User-Agent, else a random
\* anonymous token (r is the random draw)
GetUserID(cookieValue, ipAddress, userAgent, r) ==
    IF cookieValue # <<>> THEN cookieValue
    ELSE IF ipAddress # <<>> \/ userAgent # <<>>
         THEN <<"sha256">> \o ipAddress \o <<":">> \o userAgent
    ELSE <<"anon_", ToString(r)>>

(***************************************************************************)
(* HTTP headers and cookies (net/http).                                    *)
(***************************************************************************)
HeaderNames ==
    {"Content-Type", "Content-Length", "Set-Cookie",
     "X-EF-Experiment", "X-EF-Variant", "X-EF-Transform", "X-EF-Timing"}

\* http.Header.Get: the first value of the key, "" when there is none
HeaderGet(h, k) == IF h[k] = <<>> THEN <<>> ELSE h[k][1]

\* http.Header.Set: replaces every value of the key
HeaderSet(h, k, v) == [h EXCEPT ![k] = <<v>>]

\* http.Header.Add: appends a value
HeaderAdd(h, k, v) == [h EXCEPT ![k] = Append(@, v)]

\* 30 * 24 * 60 * 60
CookieMaxAge == 30 * 24 * 60 * 60

\* fmt.Sprintf("ef_var_%s", experimentID)
CookieName(experimentID) == <<"ef_var_">> \o experimentID

\* what (*http.Cookie).String() leaves of a cookie value: the bytes a cookie
\* value cannot hold are dropped
InvalidCookieValueBytes == {";", "\"", "\\"}
sanitizeCookieValue(v) == SelectSeq(v, LAMBDA c : c \notin InvalidCookieValueBytes)

\* the assignment cookie written without the variant
AssignmentCookie_NoValue(experimentID, variantID) ==
    CookieName(experimentID) \o <<"=">>
        \o <<";", "Path=/", ";", "Max-Age=" \o ToString(CookieMaxAge), ";",
             "HttpOnly", ";", "SameSite=Lax">>

\* the assignment cookie written without its Max-Age: a session cookie
AssignmentCookie_NoMaxAge(experimentID, variantID) ==
    CookieName(experimentID) \o <<"=">> \o sanitizeCookieValue(variantID)
        \o <<";", "Path=/", ";", "HttpOnly", ";", "SameSite=Lax">>

\* the http.Cookie applyExperiment builds, as (*http.Cookie).String() writes it
AssignmentCookie(experimentID, variantID) ==
    CookieName(experimentID) \o <<"=">> \o sanitizeCookieValue(variantID)
        \o <<";", "Path=/", ";", "Max-Age=" \o ToString(CookieMaxAge), ";",
             "HttpOnly", ";", "SameSite=Lax">>

\* (*http.Request).Cookie: the value of the first cookie of that name;
\* found is FALSE for http.ErrNoCookie
RECURSIVE RequestCookie(_, _)
RequestCookie(cookies, name) ==
    IF cookies = <<>> THEN [found |-> FALSE, value |-> <<>>]
    ELSE IF Head(cookies).name = name
         THEN [found |-> TRUE, value |-> Head(cookies).value]
    ELSE RequestCookie(Tail(cookies), name)

\* strings.Contains
Contains(s, sub) ==
    \E i \in 0..(Len(s) - Len(sub)) : SubSeq(s, i + 1, i + Len(sub)) = sub

\* isHTML with the test turned around
isHTML_Inverted(h) == ~Contains(HeaderGet(h, "Content-Type"), <<"text/html">>)

\* isHTML
isHTML(h) == Contains(HeaderGet(h, "Content-Type"), <<"text/html">>)

(***************************************************************************)
(* The scenario: what the configuration, the request, the origin and the   *)
(* experiment service can be.                                              *)
(***************************************************************************)
\* EXPERIMENT_IDS: the first k identifiers, k = 0..MaxExperiments
ExpId(i) == <<"exp" \o ToString(i)>>
ExperimentIDs == {ExpId(i) : i \in 1..MaxExperiments}

VariantA == Variant(<<"vA">>, <<"Control">>, TRUE, 50)
VariantB == Variant(<<"vB">>, <<"Green CTA">>, FALSE, 50)
\* a variant the service sent without an id
VariantNoId == Variant(<<>>, <<"Draft">>, FALSE, 100)

\* the answers of GET .../public/variants with status 200
VariantLists ==
    {<<>>, <<VariantB>>, <<VariantA, VariantB>>, <<VariantNoId>>}

\* the first 8 hex digits of HMAC-SHA256(salt, userID:experimentID), as the
\* integers they can parse to.  A request computes the HMAC of one (userID,
\* experimentID) pair at most once, so each draw is free.
HashValues == {7, 50}

\* the parameter of an assignment that computes no HMAC (fewer than two variants)
NoHash == CHOOSE x \in HashValues : \A y \in HashValues : x <= y

\* the value of an assignment cookie that names a variant no longer live
StaleVariantID == <<"vOld">>

\* the cookies a request can carry: per configured experiment, in order, no
\* assignment cookie or one naming a retired variant (for the first
\* experiment also one naming the live variant vB); or, for every
\* configured experiment, an assignment cookie without a value
RECURSIVE CookieChoices(_)
CookieChoices(k) ==
    IF k = 0 THEN {<<>>}
    ELSE {cs \o c : cs \in CookieChoices(k - 1),
                    c \in {<<>>, <<[name |-> CookieName(ExpId(k)),
                                    value |-> StaleVariantID]>>}
                           \cup (IF k = 1
                                 THEN {<<[name |-> CookieName(ExpId(k)),
                                          value |-> VariantB.id]>>}
                                 ELSE {})}

RequestCookieSets(k) ==
    CookieChoices(k) \cup
    {[i \in 1..k |-> [name |-> CookieName(ExpId(i)), value |-> <<>>]]}

\* the client's address and User-Agent
RemoteAddr == <<"10.0.0.1:4711">>
UserAgent  == <<"curl">>

\* <button id="cta">Get Started</button><br>, as html.Parse builds it
OriginTree ==
    << MkNode(DocumentNode, <<>>, <<>>, <<2>>, Nil),
       MkNode(ElementNode, <<"html">>, <<>>, <<3, 4>>, 1),
       MkNode(ElementNode, <<"head">>, <<>>, <<>>, 2),
       MkNode(ElementNode, <<"body">>, <<>>, <<5, 7>>, 2),
       MkNode(ElementNode, <<"button">>, <<Attr(<<"id">>, <<"cta">>)>>, <<6>>, 4),
       MkNode(TextNode, <<"Get Started">>, <<>>, <<>>, 5),
       MkNode(ElementNode, <<"br">>, <<>>, <<>>, 4) >>

\* the bytes of the bare fragment: shorter than its rendering, which adds
\* html, head and body
FragmentBody == MkBody(OriginTree, 6, FALSE)

\* the same document in the form html.Render writes
RenderedBody == MkBody(OriginTree, SumBytes(OriginTree, preOrder(OriginTree, Root)), TRUE)

OriginResponse(ct, sc, b) == [contentType |-> ct, setCookie |-> sc, body |-> b]

\* the responses of the origin: three HTML documents, one of them with a
\* Set-Cookie of its own, one with two Set-Cookie lines of which the first
\* has no value; a JSON answer and an answer without Content-Type
OriginResponses ==
    {OriginResponse(<<<<"text/html", ";", " ", "charset=utf-8">>>>, <<>>, FragmentBody),
     OriginResponse(<<<<"text/html">>>>, <<<<"sid", "=", "abc">>>>, RenderedBody),
     OriginResponse(<<<<"text/html">>>>, <<<<>>, <<"sid", "=", "abc">>>>, RenderedBody),
     OriginResponse(<<<<"application/json">>>>, <<<<"sid", "=", "abc">>>>, FragmentBody),
     OriginResponse(<<>>, <<>>, FragmentBody)}

\* the operation lists of the transform specs the service can answer with
SpecControl == <<>>
SpecHit ==
    <<Op(OpSetAttr, <<".", "missing">>, <<"1">>, <<"data-x">>, 0),
      Op("blink", <<"button">>, <<>>, <<>>, 0),
      Op(OpSetText, <<"#", "cta">>, <<"Buy Now">>, <<>>, 0),
      Op(OpSetAttr, <<"[", "id", "=", "\"", "cta", "\"", "]">>, <<"1">>, <<"data-x">>, 1)>>
\* setText on a void element: the tree cannot be rendered
SpecVoid ==
    <<Op(OpRemove, <<"button">>, <<>>, <<>>, 0),
      Op(OpSetText, <<"br">>, <<"x">>, <<>>, 0)>>
\* removes what SpecHit has marked; matches nothing in the origin's document
SpecFollow ==
    <<Op(OpRemove, <<"[", "data-x", "=", "1", "]">>, <<>>, <<>>, 0)>>
Specs == {SpecControl, SpecHit, SpecVoid}

NoCur ==
    [experimentID |-> <<>>, variantID |-> <<>>, variantKey |-> <<>>,
     isNew |-> FALSE, operations |-> <<>>, expired |-> FALSE]

NoCalls == [attempts |-> 0, variants |-> <<>>, specs |-> <<>>]

\* what a call of GetVariants returned: an error, or the list
VariantsError == [err |-> TRUE, list |-> <<>>]
VariantsAnswer(list) == [err |-> FALSE, list |-> list]

\* a call of GetTransformSpec: the variant_id it sent, and what it returned:
\* an error, or the operations of the spec
SpecError(variantID) == [variantID |-> variantID, err |-> TRUE, operations |-> <<>>]
SpecAnswer(variantID, operations) ==
    [variantID |-> variantID, err |-> FALSE, operations |-> operations]

NoHeader == [n \in HeaderNames |-> <<>>]

\* the first request of a client: nothing was assigned to it before
NoSession == [request |-> 1, assigned |-> [e \in ExperimentIDs |-> <<>>]]

\* the packages are not called on their own
NoCase == [rnd |-> 0]

NoResponse ==
    [status |-> 0, header |-> NoHeader,
     body |-> [bytes |-> MkBody(<<>>, 0, FALSE), complete |-> FALSE]]

Init ==
    /\ failOpen \in BOOLEAN
    /\ \E k \in 0..MaxExperiments :
          /\ experiments = {ExpId(i) : i \in 1..k}
          /\ reqCookies \in RequestCookieSets(k)
    /\ \E o \in OriginResponses :
          /\ header = [NoHeader EXCEPT !["Content-Type"] = o.contentType,
                                       !["Content-Length"] = <<<<ToString(o.body.len)>>>>,
                                       !["Set-Cookie"] = o.setCookie]
          /\ respBody = o.body
          /\ contentLength = o.body.len
    /\ bodyState = "origin"
    /\ origin = [header |-> header, body |-> respBody, contentLength |-> contentLength]
    /\ pc = "start"
    /\ pending = {}
    /\ cur = NoCur
    /\ result = "none"
    /\ calls = [e \in ExperimentIDs |-> NoCalls]
    /\ outcome = [e \in ExperimentIDs |-> "none"]
    /\ served = NoResponse
    /\ session = NoSession
    /\ assignCase = NoCase
    /\ domCase = NoCase

(***************************************************************************)
(* The orchestrator (middleware): ModifyResponse, applyExperiment,         *)
(* getOrAssignVariant, addHeaders.                                         *)
(***************************************************************************)
\* addHeaders; the number of milliseconds time.Since reads is left open
addHeaders(h, experimentID, variantKey, status) ==
    LET h1 == HeaderSet(h, "X-EF-Experiment", experimentID)
        h2 == HeaderSet(h1, "X-EF-Variant", variantKey)
        h3 == HeaderSet(h2, "X-EF-Transform", <<status>>)
    IN  HeaderSet(h3, "X-EF-Timing", <<"total=", "%d", "ms">>)

\* step 2 of applyExperiment: the assignment cookie goes onto the response
setAssignmentCookie(h, experimentID, variantID) ==
    IF HeaderGet(h, "Set-Cookie") = <<>>
    THEN HeaderSet(h, "Set-Cookie", AssignmentCookie(experimentID, variantID))
    ELSE HeaderAdd(h, "Set-Cookie", AssignmentCookie(experimentID, variantID))

\* errorResult with the FAIL_OPEN check lost: the error is always returned
errorResult_AlwaysErr == "err"

\* what ModifyResponse returns when applyExperiment returned an error
errorResult == IF failOpen THEN "nil" ELSE "err"

\* applyExperiment returns an error: ModifyResponse logs it and returns
AttemptFails(why) ==
    /\ outcome' = [outcome EXCEPT ![cur.experimentID] = why]
    /\ result' = errorResult
    /\ pc' = "returned"
    /\ cur' = NoCur

\* applyExperiment returns nil: the range loop goes on
AttemptEnds(how) ==
    /\ outcome' = [outcome EXCEPT ![cur.experimentID] = how]
    /\ pc' = "loop"
    /\ cur' = NoCur
    /\ UNCHANGED result

\* the cookie looked up under the bare experiment id
TheCookie_WrongName == RequestCookie(reqCookies, cur.experimentID)

\* req.Cookie(cookieName)
TheCookie == RequestCookie(reqCookies, CookieName(cur.experimentID))
HasAssignment == TheCookie.found /\ TheCookie.value # <<>>

\* ModifyResponse is called: responses that are not HTML are returned as is
Enter ==
    /\ pc = "start"
    /\ IF ~isHTML(header)
       THEN pc' = "returned" /\ result' = "nil" /\ UNCHANGED pending
       ELSE pc' = "loop" /\ pending' = experiments /\ UNCHANGED result
    /\ UNCHANGED <<fixed, header, respBody, bodyState, contentLength, cur,
                   calls, outcome, served>>

\* for experimentID := range m.experiments: a map is ranged over in any
\* order; applyExperiment starts with a fresh deadline
BeginAttempt(e) ==
    /\ pc = "loop"
    /\ e \in pending
    /\ pending' = pending \ {e}
    /\ cur' = [NoCur EXCEPT !.experimentID = e]
    /\ calls' = [calls EXCEPT ![e].attempts = @ + 1]
    /\ pc' = "resolve"
    /\ UNCHANGED <<fixed, header, respBody, bodyState, contentLength, result,
                   outcome, served>>

\* the range loop is over: ModifyResponse returns nil
LoopDone ==
    /\ pc = "loop"
    /\ pending = {}
    /\ result' = "nil"
    /\ pc' = "returned"
    /\ UNCHANGED <<fixed, header, respBody, bodyState, contentLength, pending,
                   cur, calls, outcome, served>>

\* getOrAssignVariant, the request carries the assignment cookie
ResolveFromCookie ==
    /\ pc = "resolve"
    /\ HasAssignment
    /\ cur' = [cur EXCEPT !.variantID = TheCookie.value, !.variantKey = <<>>,
                          !.isNew = FALSE]
    /\ pc' = "fetch"
    /\ UNCHANGED <<fixed, header, respBody, bodyState, contentLength, pending,
                   result, calls, outcome, served>>

\* GetVariants fails and the attempt goes on with a made-up variant
GetVariantsFail_Fallback ==
    /\ pc = "resolve"
    /\ ~HasAssignment
    /\ calls' = [calls EXCEPT ![cur.experimentID].variants = Append(@, VariantsError)]
    /\ cur' = [cur EXCEPT !.variantID = <<"control">>]
    /\ pc' = "fetch"
    /\ UNCHANGED <<fixed, header, respBody, bodyState, contentLength, pending,
                   result, outcome, served>>

\* getOrAssignVariant, GetVariants fails (network error, status other than
\* 200, undecodable answer, deadline): variantID is "" and the attempt fails
GetVariantsFail ==
    /\ pc = "resolve"
    /\ ~HasAssignment
    /\ calls' = [calls EXCEPT ![cur.experimentID].variants = Append(@, VariantsError)]
    /\ AttemptFails("no-variant")
    /\ UNCHANGED <<fixed, header, respBody, bodyState, contentLength, pending,
                   served>>

\* getOrAssignVariant, GetVariants answers within the deadline: a variant is
\* assigned and, being new, written to the Set-Cookie header
GetVariantsOK(variants, hashInt) ==
    /\ pc = "resolve"
    /\ ~HasAssignment
    /\ ~cur.expired
    /\ Len(variants) < 2 => hashInt = NoHash
    /\ calls' = [calls EXCEPT ![cur.experimentID].variants =
                                 Append(@, VariantsAnswer(variants))]
    /\ LET i == AssignVariant(hashInt, variants)
       IN  IF i = 0 \/ variants[i].id = <<>>
           THEN /\ AttemptFails("no-variant")
                /\ UNCHANGED header
           ELSE /\ cur' = [cur EXCEPT !.variantID = variants[i].id,
                                      !.variantKey = variants[i].name,
                                      !.isNew = TRUE]
                /\ header' = setAssignmentCookie(header, cur.experimentID,
                                                 variants[i].id)
                /\ pc' = "fetch"
                /\ UNCHANGED <<result, outcome>>
    /\ UNCHANGED <<fixed, respBody, bodyState, contentLength, pending, served>>

\* GetTransformSpec fails and is called a second time before the attempt
\* gives up
FetchSpecFail_Retry ==
    /\ pc = "fetch"
    /\ calls' = [calls EXCEPT ![cur.experimentID].specs =
                                 Append(@, SpecError(cur.variantID))]
    /\ IF Len(calls[cur.experimentID].specs) = 0
       THEN UNCHANGED <<pc, cur, result, outcome>>
       ELSE AttemptFails(IF cur.expired THEN "spec-timeout" ELSE "spec-error")
    /\ UNCHANGED <<fixed, header, respBody, bodyState, contentLength, pending,
                   served>>

\* GetTransformSpec fails: by the deadline when it has passed, by a network
\* error, a status other than 200 or an undecodable answer otherwise
FetchSpecFail ==
    /\ pc = "fetch"
    /\ calls' = [calls EXCEPT ![cur.experimentID].specs =
                                 Append(@, SpecError(cur.variantID))]
    /\ AttemptFails(IF cur.expired THEN "spec-timeout" ELSE "spec-error")
    /\ UNCHANGED <<fixed, header, respBody, bodyState, contentLength, pending,
                   served>>

\* GetTransformSpec answers and the test for an empty operation list is lost
FetchSpecOK_NoControl(operations) ==
    /\ pc = "fetch"
    /\ ~cur.expired
    /\ calls' = [calls EXCEPT ![cur.experimentID].specs =
                                 Append(@, SpecAnswer(cur.variantID, operations))]
    /\ cur' = [cur EXCEPT !.operations = operations]
    /\ pc' = "transform"
    /\ UNCHANGED <<fixed, header, respBody, bodyState, contentLength, pending,
                   result, outcome, served>>

\* GetTransformSpec answers within the deadline; a spec without operations
\* is the control path: headers are written and the attempt is over
FetchSpecOK(operations) ==
    /\ pc = "fetch"
    /\ ~cur.expired
    /\ calls' = [calls EXCEPT ![cur.experimentID].specs =
                                 Append(@, SpecAnswer(cur.variantID, operations))]
    /\ IF Len(operations) = 0
       THEN /\ header' = addHeaders(header, cur.experimentID, cur.variantKey, "control")
            /\ AttemptEnds("control")
       ELSE /\ cur' = [cur EXCEPT !.operations = operations]
            /\ pc' = "transform"
            /\ UNCHANGED <<header, result, outcome>>
    /\ UNCHANGED <<fixed, respBody, bodyState, contentLength, pending, served>>

\* io.ReadAll(resp.Body) fails: the origin's stream broke while it was read
ReadBodyFail ==
    /\ pc = "transform"
    /\ bodyState = "origin"
    /\ bodyState' = "broken"
    /\ AttemptFails("read-error")
    /\ UNCHANGED <<fixed, header, respBody, contentLength, pending, calls, served>>

\* the operations applied to the document the origin sent, whatever
\* resp.Body holds by now
Transformed_FromOrigin ==
    {RenderHTML(doc) :
        doc \in ApplyTransformations(Parse(origin.body), cur.operations).docs}

\* steps 4 to 7 of applyExperiment: the body is read and parsed, the
\* operations are applied and the tree is rendered
Transformed ==
    {RenderHTML(doc) :
        doc \in ApplyTransformations(Parse(respBody), cur.operations).docs}

\* html.Render fails: the error is returned with the body read to its end
\* and closed
RenderFail ==
    /\ pc = "transform"
    /\ bodyState \in {"origin", "memory"}
    /\ \E rendered \in Transformed : rendered.err
    /\ bodyState' = "drained"
    /\ AttemptFails("render-error")
    /\ UNCHANGED <<fixed, header, respBody, contentLength, pending, calls, served>>

\* steps 4 to 9 of applyExperiment succeed: the rendering replaces the body
TransformHit ==
    /\ pc = "transform"
    /\ bodyState \in {"origin", "memory"}
    /\ \E rendered \in Transformed :
       LET transformedBody == rendered.body
       IN  /\ ~rendered.err
           /\ respBody' = transformedBody
           /\ bodyState' = "memory"
           /\ contentLength' = transformedBody.len
           /\ header' = addHeaders(
                  HeaderSet(header, "Content-Length", <<ToString(transformedBody.len)>>),
                  cur.experimentID, cur.variantKey, "hit")
    /\ AttemptEnds("hit")
    /\ UNCHANGED <<fixed, pending, calls, served>>

\* the deadline of the attempt's context passes
DeadlineExpires ==
    /\ pc \in {"resolve", "fetch", "transform"}
    /\ ~cur.expired
    /\ cur' = [cur EXCEPT !.expired = TRUE]
    /\ UNCHANGED <<fixed, header, respBody, bodyState, contentLength, pc, pending,
                   result, calls, outcome, served>>

(***************************************************************************)
(* The reverse proxy around ModifyResponse (main).                         *)
(***************************************************************************)
StatusOK == 200
StatusBadGateway == 502

\* what the proxy can copy from resp.Body to the client
Readable ==
    IF bodyState \in {"origin", "memory"}
    THEN [bytes |-> respBody, complete |-> TRUE]
    ELSE [bytes |-> MkBody(<<>>, 0, FALSE), complete |-> FALSE]

\* httputil.ReverseProxy after ModifyResponse: an error goes to ErrorHandler,
\* which answers 502; otherwise headers and body are copied to the client
Respond ==
    /\ pc = "returned"
    /\ served' =
          IF result = "err"
          THEN [status |-> StatusBadGateway, header |-> NoHeader,
                body |-> [bytes |-> MkBody(<<>>, 0, FALSE), complete |-> TRUE]]
          ELSE [status |-> StatusOK, header |-> header, body |-> Readable]
    /\ pc' = "done"
    /\ UNCHANGED <<fixed, header, respBody, bodyState, contentLength, pending,
                   cur, result, calls, outcome>>

Next ==
    \/ Enter
    \/ \E e \in ExperimentIDs : BeginAttempt(e)
    \/ LoopDone
    \/ ResolveFromCookie
    \/ GetVariantsFail
    \/ \E vs \in VariantLists, h \in HashValues : GetVariantsOK(vs, h)
    \/ FetchSpecFail
    \/ \E ops \in Specs : FetchSpecOK(ops)
    \/ ReadBodyFail
    \/ RenderFail
    \/ TransformHit
    \/ DeadlineExpires
    \/ Respond

Spec == Init /\ [][Next]_vars

(***************************************************************************)
(* A client that comes back: its second request carries the cookies the    *)
(* answer to its first request set.                                        *)
(***************************************************************************)
\* what a client keeps of one Set-Cookie line, and sends back in its Cookie
\* header: the name before "=" and the value up to the first ";"
ParseSetCookie(line) ==
    LET eq == IndexOf(line, "=", 1)
        semi == IndexOf(line, ";", 1)
        stop == IF semi = 0 THEN Len(line) ELSE semi - 1
    IN  [name |-> SubSeq(line, 1, eq - 1), value |-> SubSeq(line, eq + 1, stop)]

\* req.Cookies() of the request that follows a response with these headers:
\* a line without "=" sets no cookie
RECURSIVE ClientCookies(_)
ClientCookies(lines) ==
    IF lines = <<>> THEN <<>>
    ELSE (IF IndexOf(Head(lines), "=", 1) = 0 THEN <<>>
          ELSE <<ParseSetCookie(Head(lines))>>)
         \o ClientCookies(Tail(lines))

\* the variant the answered request assigned for experiment e in
\* getOrAssignVariant (the id AssignVariant returned), if the client got
\* the response
AssignedIn(e) ==
    IF /\ served.status = StatusOK
       /\ calls[e].variants # <<>>
       /\ ~calls[e].variants[1].err
       /\ calls[e].specs # <<>>
    THEN calls[e].specs[1].variantID
    ELSE <<>>

\* the experiment service may answer with this spec as well by then
SessionSpecs == Specs \cup {SpecFollow}

\* the client's first request has no cookies; the page it asks for is the
\* HTML document that comes with a session cookie of the origin
InitSession ==
    /\ Init
    /\ reqCookies = <<>>
    /\ isHTML(origin.header)
    /\ HeaderGet(origin.header, "Set-Cookie") # <<>>

\* the client sends its second request, to the same page
FollowUp ==
    /\ pc = "done"
    /\ session.request = 1
    /\ session' = [request |-> 2,
                   assigned |-> [e \in ExperimentIDs |-> AssignedIn(e)]]
    /\ reqCookies' = ClientCookies(served.header["Set-Cookie"])
    /\ header' = origin.header
    /\ respBody' = origin.body
    /\ contentLength' = origin.contentLength
    /\ bodyState' = "origin"
    /\ pc' = "start"
    /\ pending' = {}
    /\ cur' = NoCur
    /\ result' = "none"
    /\ calls' = [e \in ExperimentIDs |-> NoCalls]
    /\ outcome' = [e \in ExperimentIDs |-> "none"]
    /\ served' = NoResponse
    /\ UNCHANGED <<failOpen, experiments, origin, assignCase, domCase>>

NextSession ==
    \/ Enter
    \/ \E e \in ExperimentIDs : BeginAttempt(e)
    \/ LoopDone
    \/ ResolveFromCookie
    \/ GetVariantsFail
    \/ \E vs \in VariantLists, h \in HashValues : GetVariantsOK(vs, h)
    \/ FetchSpecFail
    \/ \E ops \in SessionSpecs : FetchSpecOK(ops)
    \/ ReadBodyFail
    \/ RenderFail
    \/ TransformHit
    \/ DeadlineExpires
    \/ Respond
    \/ FollowUp

SpecSession == InitSession /\ [][NextSession]_vars

(***************************************************************************)
(* The assigner called on its own (package variant): processes, each with  *)
(* an Assigner of its own, call AssignVariant for users of one experiment  *)
(* with one variant list.                                                  *)
(***************************************************************************)
\* no request is in the middleware
Parked ==
    /\ failOpen = TRUE
    /\ experiments = {}
    /\ reqCookies = <<>>
    /\ header = NoHeader
    /\ respBody = MkBody(<<>>, 0, FALSE)
    /\ bodyState = "origin"
    /\ contentLength = 0
    /\ origin = [header |-> header, body |-> respBody, contentLength |-> contentLength]
    /\ pc = "done"
    /\ pending = {}
    /\ cur = NoCur
    /\ result = "none"
    /\ calls = [e \in ExperimentIDs |-> NoCalls]
    /\ outcome = [e \in ExperimentIDs |-> "none"]
    /\ served = NoResponse
    /\ session = NoSession

Processes == {1, 2}
UserIDs == {<<"u1">>, <<"u2">>}
Salts == {<<"default-salt-change-in-production">>, <<"s3cret">>}

\* the variant list with the given allocations (in hundredths), the first
\* variant being the control
VariantsOf(allocs) ==
    [i \in 1..Len(allocs) |->
        Variant(<<"v" \o ToString(i)>>, <<"Variant " \o ToString(i)>>, i = 1, allocs[i])]

\* no variant; one variant; two and three variants whose allocations sum to
\* 1.0, in ascending and in descending order; two that sum to 0.6
AllocationLists ==
    {<<>>, <<30>>, <<50, 50>>, <<30, 30>>, <<10, 20, 70>>, <<70, 20, 10>>}

\* values of the first 8 hex digits of an HMAC (buckets 0, 30, 50, 99, 60, 47)
HmacValues == {0, 30, 50, 99, 160, 2147483647}

\* the HMACs computed so far: SHA-256 is a fixed function nobody can
\* predict, so the value for a key is drawn when the key is first used
NoHmac == [known |-> FALSE, value |-> 0]
HmacKeys == UserIDs \X Salts

InitAssign ==
    /\ Parked
    /\ domCase = NoCase
    /\ \E allocs \in AllocationLists, salt \in [Processes -> Salts] :
          assignCase = [variants |-> VariantsOf(allocs),
                        salt |-> salt,
                        hmac |-> [k \in HmacKeys |-> NoHmac],
                        log |-> <<>>,
                        rnd |-> 3]

\* process p calls AssignVariant(userID, experimentID, variants); h is the
\* HMAC when this key is used for the first time
AssignCall(p, userID, h) ==
    /\ Len(assignCase.log) < MaxCalls
    /\ LET key == <<userID, assignCase.salt[p]>>
           hashInt == IF assignCase.hmac[key].known
                      THEN assignCase.hmac[key].value ELSE h
           assigned == AssignVariant(hashInt, assignCase.variants)
       IN  assignCase' =
              [assignCase EXCEPT
                  !.hmac[key] = [known |-> TRUE, value |-> hashInt],
                  !.log = Append(@, [process |-> p, userID |-> userID,
                                     salt |-> assignCase.salt[p],
                                     bucket |-> getBucket(hashInt),
                                     assigned |-> assigned]),
                  !.rnd = (@ + 37) % 100]
    /\ UNCHANGED <<middleware, domCase>>

NextAssign ==
    \E p \in Processes, userID \in UserIDs, h \in HmacValues : AssignCall(p, userID, h)

SpecAssign == InitAssign /\ [][NextAssign]_vars

(***************************************************************************)
(* The transform package called on its own: selector resolution.           *)
(***************************************************************************)
\* <div id="hero" class="box big" style="color: red"><p class="lead">Hello</p>
\* <p>World</p></div><button id="cta" data-x="">Get Started</button><br>
PageTree ==
    << MkNode(DocumentNode, <<>>, <<>>, <<2>>, Nil),
       MkNode(ElementNode, <<"html">>, <<>>, <<3, 4>>, 1),
       MkNode(ElementNode, <<"head">>, <<>>, <<>>, 2),
       MkNode(ElementNode, <<"body">>, <<>>, <<5, 10, 12>>, 2),
       MkNode(ElementNode, <<"div">>,
              <<Attr(<<"id">>, <<"hero">>), Attr(<<"class">>, <<"box", " ", "big">>),
                Attr(<<"style">>, <<"color", ":", " ", "red">>)>>, <<6, 8>>, 4),
       MkNode(ElementNode, <<"p">>, <<Attr(<<"class">>, <<"lead">>)>>, <<7>>, 5),
       MkNode(TextNode, <<"Hello">>, <<>>, <<>>, 6),
       MkNode(ElementNode, <<"p">>, <<>>, <<9>>, 5),
       MkNode(TextNode, <<"World">>, <<>>, <<>>, 8),
       MkNode(ElementNode, <<"button">>,
              <<Attr(<<"id">>, <<"cta">>), Attr(<<"data-x">>, <<>>)>>, <<11>>, 4),
       MkNode(TextNode, <<"Get Started">>, <<>>, <<>>, 10),
       MkNode(ElementNode, <<"br">>, <<>>, <<>>, 4) >>

\* the tree of an empty document
EmptyTree ==
    << MkNode(DocumentNode, <<>>, <<>>, <<2>>, Nil),
       MkNode(ElementNode, <<"html">>, <<>>, <<3, 4>>, 1),
       MkNode(ElementNode, <<"head">>, <<>>, <<>>, 2),
       MkNode(ElementNode, <<"body">>, <<>>, <<>>, 2) >>

SelectDocs == {PageTree, OriginTree, EmptyTree}

\* selectors of the five forms, with names that occur in the documents and
\* names that do not, empty names and values, quoted and unquoted values,
\* padding, and a descendant combinator
Selectors ==
    {<<".">> \o c : c \in {<<"box">>, <<"big">>, <<"lead">>, <<"missing">>, <<>>}}
    \cup {<<"#">> \o i : i \in {<<"hero">>, <<"cta">>, <<"none">>, <<>>}}
    \cup {<<"[">> \o k \o <<"]">> :
             k \in {<<"id">>, <<"class">>, <<"data-x">>, <<"style">>, <<"lang">>}}
    \cup {<<"[">> \o k \o <<"=">> \o q \o v \o q \o <<"]">> :
             k \in {<<"id">>, <<"data-x">>, <<"lang">>},
             v \in {<<"cta">>, <<>>},
             q \in {<<>>, <<"\"">>, <<"'">>}}
    \cup {<<"div">>, <<"p">>, <<"button">>, <<"br">>, <<"span">>}
    \cup {<<" ", "p", " ">>, <<"div", " ", "p">>, <<>>}

InitSelect ==
    /\ Parked
    /\ assignCase = NoCase
    /\ \E doc \in SelectDocs :
          domCase = [doc |-> doc, resolved |-> FALSE, selector |-> <<>>, nodes |-> <<>>]

\* findNodesBySelector(doc, selector) is called
Resolve(selector) ==
    /\ domCase' = [domCase EXCEPT
                      !.resolved = TRUE,
                      !.selector = selector,
                      !.nodes = findNodesBySelector(domCase.doc, selector)]
    /\ UNCHANGED <<middleware, assignCase>>

NextSelect == \E selector \in Selectors : Resolve(selector)

SpecSelect == InitSelect /\ [][NextSelect]_vars

(***************************************************************************)
(* The transform package called on its own: batches of operations.  Two    *)
(* executions start from the same document with the same batch; each       *)
(* applies the batch to its tree, MaxRuns times at most in all.            *)
(***************************************************************************)
DomOps ==
    {Op(OpSetText, <<"#", "cta">>, <<"Buy">>, <<>>, 2),
     Op(OpSetText, <<"button">>, <<"Now">>, <<>>, 1),
     Op(OpSetAttr, <<".", "box">>, <<"1">>, <<"data-x">>, 0),
     Op(OpSetStyle, <<"[", "id", "]">>, <<"blue">>, <<"background">>, 0),
     Op(OpHide, <<"button">>, <<>>, <<>>, 3),
     Op(OpShow, <<"button">>, <<>>, <<>>, 0),
     Op(OpRemove, <<".", "lead">>, <<>>, <<>>, 0),
     Op(OpSetHTML, <<"button">>,
        <<"<", "button", ">", "Go", "<", "/", "button", ">">>, <<>>, 0),
     Op(OpSetText, <<"[", "class", "]">>, <<"Hi">>, <<>>, 0),
     Op(OpRemove, <<"#">>, <<>>, <<>>, 0),
     Op("blink", <<"button">>, <<>>, <<>>, 0),
     Op(OpSetText, <<".", "missing">>, <<"x">>, <<>>, 0)}

\* the batches of 1 to n operations
RECURSIVE Batches(_)
Batches(n) ==
    IF n = 0 THEN {}
    ELSE {<<op>> : op \in DomOps}
         \cup {Append(b, op) : b \in Batches(n - 1), op \in DomOps}

DomDocs == {PageTree, OriginTree}
Executions == {1, 2}

InitDom ==
    /\ Parked
    /\ assignCase = NoCase
    /\ \E doc \in DomDocs, ops \in Batches(MaxOps) :
          domCase = [doc |-> doc, ops |-> ops,
                     exec |-> [x \in Executions |-> [doc |-> doc, runs |-> 0]]]

\* execution x calls ApplyTransformations(doc, ops) on its tree.  The two
\* executions are alike, so the second is the one that has run no more often
\* than the first.
Execute(x) ==
    /\ domCase.exec[1].runs + domCase.exec[2].runs < MaxRuns
    /\ x = 2 => domCase.exec[2].runs < domCase.exec[1].runs
    /\ \E doc \in ApplyTransformations(domCase.exec[x].doc, domCase.ops).docs :
          domCase' = [domCase EXCEPT !.exec[x] = [doc |-> doc, runs |-> @.runs + 1]]
    /\ UNCHANGED <<middleware, assignCase>>

NextDom == \E x \in Executions : Execute(x)

SpecDom == InitDom /\ [][NextDom]_vars

(***************************************************************************)
(* Vocabulary of the properties.                                           *)
(***************************************************************************)
Returned == pc \in {"returned", "done"}

FailureOutcomes ==
    {"no-variant", "spec-timeout", "spec-error", "read-error", "render-error"}

\* resp.Body still yields the origin's bytes, all of them
BodyIsOrigin == bodyState = "origin" /\ respBody = origin.body

\* resp.Body yields the complete rendering of a parsed and mutated document
BodyIsRendering == bodyState = "memory" /\ respBody.rendered

TransformHeader == HeaderGet(header, "X-EF-Transform")

(***************************************************************************)
(* C1.  When the transform-spec fetch of an experiment fails (FAIL_OPEN    *)
(* true, so that the response is passed on), ModifyResponse returns with   *)
(* the body byte-identical to the origin's and with X-EF-Transform:        *)
(* timeout if the deadline was exceeded, X-EF-Transform: miss for any      *)
(* other failure of the fetch.                                             *)
(***************************************************************************)
C1_SpecFetchFailureIsReported ==
    \A e \in ExperimentIDs :
        (Returned /\ failOpen /\ outcome[e] \in {"spec-timeout", "spec-error"}) =>
            /\ respBody = origin.body
            /\ bodyState = "origin"
            /\ TransformHeader =
                  <<IF outcome[e] = "spec-timeout" THEN "timeout" ELSE "miss">>

(***************************************************************************)
(* C2.  Whatever the outcome of the attempts, the body served after       *)
(* ModifyResponse is either the complete rendering of a parsed and mutated *)
(* document or the origin's body, unconsumed and unchanged; also when      *)
(* rendering the tree failed after the spec was fetched.  (Stated for the  *)
(* responses that are passed on, and for the failures that leave the       *)
(* origin's bytes in the proxy's hands: a stream that broke while it was   *)
(* read has no body left to serve.)                                        *)
(***************************************************************************)
C2_BodyIsRenderingOrOrigin ==
    (pc = "done" /\ served.status = StatusOK /\ bodyState # "broken") =>
        /\ served.body.complete
        /\ served.body.bytes = origin.body \/ served.body.bytes.rendered

(***************************************************************************)
(* C3.  As claimed: for every value of FAIL_OPEN and every failure,        *)
(* ModifyResponse returns no error and the client is never answered with   *)
(* the status of the proxy's error handler.                                *)
(***************************************************************************)
C3_NeverAnError ==
    /\ result # "err"
    /\ served.status # StatusBadGateway

(***************************************************************************)
(* C3, amended.  With FAIL_OPEN true, ModifyResponse returns no error      *)
(* whatever stage failed and the client is answered with the origin's      *)
(* status; with FAIL_OPEN false, ModifyResponse returns the error of the    *)
(* failed attempt and the proxy's error handler answers 502.               *)
(***************************************************************************)
C3_FailOpenDecides ==
    LET failed == \E e \in ExperimentIDs : outcome[e] \in FailureOutcomes
    IN  /\ failOpen => result # "err" /\ served.status # StatusBadGateway
        /\ (Returned /\ ~failed) => result = "nil"
        /\ (Returned /\ failed) => result = (IF failOpen THEN "nil" ELSE "err")
        /\ pc = "done" =>
              served.status = (IF result = "err" THEN StatusBadGateway ELSE StatusOK)

\* a failed attempt under FAIL_OPEN true, answered with status 200
C3_Witness ==
    /\ pc = "done"
    /\ failOpen
    /\ \E e \in ExperimentIDs : outcome[e] = "render-error"
    /\ served.status = StatusOK

(***************************************************************************)
(* C4.  The deadline of an attempt also bounds its transform pass: when it *)
(* has passed after the spec was fetched and before read, parse, mutation  *)
(* and render are done, the attempt ends in failed_open(timeout): the body *)
(* is left untouched and X-EF-Transform reports timeout, never hit.        *)
(* (Stated for the attempts in which nothing but the deadline stands in    *)
(* the way: the body can be read and the tree can be rendered.)            *)
(***************************************************************************)
C4_DeadlineBoundsTransform ==
    [][(/\ pc = "transform" /\ cur.expired /\ pc' # "transform"
        /\ outcome'[cur.experimentID] \notin {"read-error", "render-error"}) =>
          /\ outcome'[cur.experimentID] # "hit"
          /\ respBody' = respBody
          /\ bodyState' = bodyState
          /\ HeaderGet(header', "X-EF-Transform") = <<"timeout">>]_vars

(***************************************************************************)
(* C5.  For an HTML response (passed on: FAIL_OPEN true) every configured  *)
(* experiment gets exactly one attempt during ModifyResponse, also when an *)
(* experiment visited earlier failed.                                      *)
(***************************************************************************)
C5_EveryExperimentAttempted ==
    (Returned /\ failOpen /\ isHTML(origin.header)) =>
        \A e \in experiments : calls[e].attempts = 1

\* the call of GetTransformSpec a step adds for experiment e, if it adds one
SpecCallAdded(e) == Len(calls'[e].specs) = Len(calls[e].specs) + 1
LastSpecCall(e) == calls'[e].specs[Len(calls'[e].specs)]

\* the call of GetVariants a step adds for experiment e, if it adds one
VariantsCallAdded(e) == Len(calls'[e].variants) = Len(calls[e].variants) + 1
LastVariantsCall(e) == calls'[e].variants[Len(calls'[e].variants)]

\* the request's assignment cookie for experiment e
CookieOf(e) == RequestCookie(reqCookies, <<"ef_var_">> \o e)
CarriesAssignment(e) == CookieOf(e).found /\ CookieOf(e).value # <<>>

(***************************************************************************)
(* C6.  When GetTransformSpec answers with an empty operation list, the    *)
(* attempt ends on the control path in that very step: the body is neither *)
(* read nor replaced (bytes, reader, ContentLength and the Content-Length  *)
(* header stay as they were), X-EF-Transform is set to control for that    *)
(* experiment, and no error is reported: the range loop goes on.           *)
(***************************************************************************)
C6_EmptySpecIsControl ==
    [][\A e \in ExperimentIDs :
          (SpecCallAdded(e) /\ ~LastSpecCall(e).err
                            /\ LastSpecCall(e).operations = <<>>) =>
              /\ respBody' = respBody
              /\ bodyState' = bodyState
              /\ contentLength' = contentLength
              /\ header'["Content-Length"] = header["Content-Length"]
              /\ header'["X-EF-Transform"] = <<<<"control">>>>
              /\ header'["X-EF-Experiment"] = <<e>>
              /\ outcome'[e] = "control"
              /\ result' = result
              /\ pc' = "loop"]_vars

\* an empty spec was answered for the only experiment and the origin's body
\* was served, whole
C6_Witness ==
    /\ pc = "done"
    /\ \E e \in ExperimentIDs :
          /\ experiments = {e}
          /\ calls[e].specs # <<>>
          /\ ~calls[e].specs[1].err
          /\ calls[e].specs[1].operations = <<>>
    /\ served.status = StatusOK
    /\ served.body = [bytes |-> origin.body, complete |-> TRUE]
    /\ served.header["X-EF-Transform"] = <<<<"control">>>>

C8_CookieIsUsedAsIs ==
    \A e \in ExperimentIDs :
        CarriesAssignment(e) =>
            /\ calls[e].variants = <<>>
            /\ \A i \in 1..Len(header["Set-Cookie"]) :
                  ~HasPrefix(header["Set-Cookie"][i], "ef_var_")
                  \/ SubSeq(header["Set-Cookie"][i], 2, 1 + Len(e)) # e
            /\ \A i \in 1..Len(calls[e].specs) :
                  calls[e].specs[i].variantID = CookieOf(e).value
            /\ Len(calls[e].specs) <= 1
            /\ outcome[e] # "none" => Len(calls[e].specs) = 1

\* a cookie naming a retired variant decided which spec was fetched and
\* applied
C8_Witness ==
    /\ pc = "done"
    /\ \E e \in ExperimentIDs :
          /\ CookieOf(e) = [found |-> TRUE, value |-> StaleVariantID]
          /\ outcome[e] = "hit"
          /\ calls[e].specs = <<SpecAnswer(StaleVariantID, SpecHit)>>

C10_NoVariantsAborts ==
    /\ [](\A e \in ExperimentIDs :
             outcome[e] = "no-variant" => calls[e].specs = <<>>)
    /\ [][\A e \in ExperimentIDs :
             (VariantsCallAdded(e) /\ (LastVariantsCall(e).err
                                       \/ LastVariantsCall(e).list = <<>>)) =>
                 /\ ~CarriesAssignment(e)
                 /\ header' = header
                 /\ respBody' = respBody
                 /\ bodyState' = bodyState
                 /\ contentLength' = contentLength
                 /\ outcome'[e] = "no-variant"
                 /\ calls'[e].specs = <<>>
                 /\ pc' = "returned"]_vars

\* GetVariants failed for the only experiment and the origin's response was
\* served as it came
C10_Witness ==
    /\ pc = "done"
    /\ \E e \in ExperimentIDs :
          /\ experiments = {e}
          /\ calls[e].variants = <<VariantsError>>
          /\ calls[e].specs = <<>>
    /\ served.status = StatusOK
    /\ served.header = origin.header
    /\ served.body = [bytes |-> origin.body, complete |-> TRUE]

\* the experiments ModifyResponse started an attempt for
Attempted == {e \in ExperimentIDs : calls[e].attempts > 0}

ObservabilityHeaders ==
    {"X-EF-Experiment", "X-EF-Variant", "X-EF-Transform", "X-EF-Timing"}

(***************************************************************************)
(* C11.  An HTML response for which at least one attempt was made leaves   *)
(* ModifyResponse (FAIL_OPEN true: the response is passed on) with all     *)
(* four headers X-EF-Experiment, X-EF-Variant, X-EF-Transform, X-EF-Timing *)
(* present and X-EF-Transform one of hit, control, miss, timeout, failed   *)
(* attempts included.                                                      *)
(***************************************************************************)
C11_HeadersOnEveryAttempt ==
    (Returned /\ failOpen /\ Attempted # {}) =>
        /\ \A h \in ObservabilityHeaders : Len(header[h]) = 1
        /\ TransformHeader \in {<<"hit">>, <<"control">>, <<"miss">>, <<"timeout">>}

\* the variants the experiment service knows, and the name of the one with
\* a given id
LiveVariants == {VariantA, VariantB}
NameOf(variantID) == (CHOOSE v \in LiveVariants : v.id = variantID).name

(***************************************************************************)
(* C12.  Whenever an attempt writes the X-EF-* headers (hit or control)    *)
(* for a variant the service knows, X-EF-Variant is the name of that       *)
(* variant, whether the variant was assigned in this request or read from  *)
(* the ef_var cookie.                                                      *)
(***************************************************************************)
C12_VariantHeaderNamesVariant ==
    [][LET e == cur.experimentID
       IN  (/\ pc \in {"fetch", "transform"} /\ pc' = "loop"
            /\ \E v \in LiveVariants : v.id = cur.variantID) =>
               /\ header'["X-EF-Experiment"] = <<e>>
               /\ header'["X-EF-Variant"] = <<NameOf(cur.variantID)>>]_vars

\* the calls of AssignVariant made so far
AssignLog == assignCase.log
AllocationsOf(variants) == [i \in 1..Len(variants) |-> variants[i].alloc100]

C15_BucketsMatchAllocation ==
    LET variants == assignCase.variants
    IN  (AssignLog # <<>> /\ SumOf(AllocationsOf(variants)) = 100) =>
            \A i \in 1..Len(variants) :
                Cardinality({b \in 0..99 : AssignVariant(b, variants) = i})
                    = variants[i].alloc100

\* the element nodes of a document, in document order
ElementsOf(doc) ==
    SelectSeq(preOrder(doc, Root), LAMBDA n : doc[n].type = ElementNode)

HasAttribute(node, key) ==
    \E i \in 1..Len(node.attr) : node.attr[i].key = key
HasAttributeValue(node, key, val) ==
    \E i \in 1..Len(node.attr) : node.attr[i].key = key /\ node.attr[i].val = val

\* name is one of the white-space separated tokens of val
IsToken(name, val) ==
    /\ name # <<>>
    /\ \A k \in 1..Len(name) : name[k] # " "
    /\ \E i \in 1..Len(val) :
          /\ i + Len(name) - 1 <= Len(val)
          /\ SubSeq(val, i, i + Len(name) - 1) = name
          /\ i = 1 \/ val[i - 1] = " "
          /\ i + Len(name) - 1 = Len(val) \/ val[i + Len(name)] = " "

\* what a selector of each of the five forms asks of an element
Selects(sel, node) ==
    IF HasPrefix(sel, ".")
    THEN \E i \in 1..Len(node.attr) :
            node.attr[i].key = <<"class">> /\ IsToken(Tail(sel), node.attr[i].val)
    ELSE IF HasPrefix(sel, "#") THEN HasAttributeValue(node, <<"id">>, Tail(sel))
    ELSE IF HasPrefix(sel, "[") /\ HasSuffix(sel, "]")
         THEN LET inner == SubSeq(sel, 2, Len(sel) - 1)
                  eq == IndexOf(inner, "=", 1)
              IN  IF eq = 0 THEN HasAttribute(node, TrimSpace(inner))
                  ELSE HasAttributeValue(
                           node, TrimSpace(SubSeq(inner, 1, eq - 1)),
                           TrimQuotes(TrimSpace(SubSeq(inner, eq + 1, Len(inner)))))
    ELSE node.data = sel

(***************************************************************************)
(* C16.  For every document and selector, findNodesBySelector returns      *)
(* exactly the elements the selector asks for: for .name those with name   *)
(* among their class tokens, for #id those whose id attribute is id, for   *)
(* [attr] those that have the attribute, for [attr=value] those whose      *)
(* attribute has that value (quotes stripped), for anything else those     *)
(* with that tag name; nothing when no element qualifies.                  *)
(***************************************************************************)
C16_SelectorResolvesExpectedSet ==
    domCase.resolved =>
        domCase.nodes =
            SelectSeq(ElementsOf(domCase.doc),
                      LAMBDA n : Selects(TrimSpace(domCase.selector), domCase.doc[n]))

\* the step in which execution x applies the batch to its tree
Runs(x) == domCase'.exec[x].runs = domCase.exec[x].runs + 1
TreeOf(x) == domCase.exec[x].doc

\* operations that can have no effect on the documents used here: a type
\* that is not an operation, a class no element has or gets
NoEffect(op) ==
    \/ op.type \notin {"setText", "setStyle", "setAttr", "setHTML", "remove",
                       "hide", "show"}
    \/ op.selector = <<".", "missing">>

(***************************************************************************)
(* C17.  An operation of unknown type or with a selector that matches no   *)
(* node changes nothing and does not stop the batch: the batch leaves the  *)
(* tree that the batch without those operations leaves, and                *)
(* ApplyTransformations returns no error.                                  *)
(***************************************************************************)
C17_FailedOperationsAreSkipped ==
    [][\A x \in Executions :
          Runs(x) =>
              LET kept == SelectSeq(domCase.ops, LAMBDA op : ~NoEffect(op))
                  whole == ApplyTransformations(TreeOf(x), domCase.ops)
              IN  /\ findNodesBySelector(TreeOf(x), <<".", "missing">>) = <<>>
                  /\ ~whole.err
                  /\ domCase'.exec[x].doc \in whole.docs
                  /\ whole.docs = ApplyTransformations(TreeOf(x), kept).docs]_vars

\* the text of the element with this tag name, when it has one child
HasText(doc, tag, text) ==
    \E n \in 1..Len(doc) :
        /\ doc[n].type = ElementNode /\ doc[n].data = tag
        /\ doc[n].parent # Nil
        /\ Len(doc[n].kids) = 1
        /\ doc[doc[n].kids[1]].data = text

\* an operation of unknown type came first; the setText after it was applied
C17_Witness ==
    /\ domCase.ops = <<Op("blink", <<"button">>, <<>>, <<>>, 0),
                       Op(OpSetText, <<"#", "cta">>, <<"Buy">>, <<>>, 2)>>
    /\ domCase.exec[1].runs = 1
    /\ HasText(domCase.exec[1].doc, <<"button">>, <<"Buy">>)

\* the operations applied one after the other, in the order of the list,
\* each to the trees the one before can have left
RECURSIVE InOrder(_, _)
InOrder(docs, operations) ==
    IF operations = <<>> THEN docs
    ELSE InOrder(UNION {applyOperation(d, operations[1]).docs : d \in docs},
                 Tail(operations))

\* the same operations with the priorities the other way round
Reprioritized(operations) ==
    [i \in 1..Len(operations) |->
        [operations[i] EXCEPT !.priority = Len(operations) - i]]

(***************************************************************************)
(* C18.  ApplyTransformations applies the operations in the order of the   *)
(* list, each resolving its selector against the tree the previous ones    *)
(* left; the priority field has no influence on the resulting tree.        *)
(***************************************************************************)
C18_ListOrderNotPriority ==
    [][\A x \in Executions :
          Runs(x) =>
              LET inOrder == InOrder({TreeOf(x)}, domCase.ops)
              IN  /\ domCase'.exec[x].doc \in inOrder
                  /\ ApplyTransformations(TreeOf(x), Reprioritized(domCase.ops)).docs
                        = inOrder]_vars

\* two setText on the button, the first with the higher priority: the text
\* of the second stands
C18_Witness ==
    /\ domCase.ops = <<Op(OpSetText, <<"#", "cta">>, <<"Buy">>, <<>>, 2),
                       Op(OpSetText, <<"button">>, <<"Now">>, <<>>, 1)>>
    /\ domCase.exec[1].runs = 1
    /\ HasText(domCase.exec[1].doc, <<"button">>, <<"Now">>)

(***************************************************************************)
(* C19.  setText, setAttr, setStyle, hide and show are idempotent: when an *)
(* operation of one of these types has been applied, applying it again     *)
(* with the same arguments leaves the tree (children, attributes, the      *)
(* value of the style attribute) as it was.                                *)
(***************************************************************************)
C19_Idempotent ==
    [][\A x \in Executions :
          (/\ Runs(x)
           /\ domCase.exec[x].runs >= 1
           /\ Len(domCase.ops) = 1
           /\ domCase.ops[1].type \in {"setText", "setAttr", "setStyle", "hide", "show"}) =>
              Reparse(domCase'.exec[x].doc) = Reparse(TreeOf(x))]_vars

(***************************************************************************)
(* C20.  setStyle writes the style attribute in a reproducible order: two  *)
(* executions that apply the same operations to the same document leave    *)
(* the same style attribute on every element.                              *)
(***************************************************************************)
C20_StyleOrderIsStable ==
    (domCase.exec[1].runs = 1 /\ domCase.exec[2].runs = 1) =>
        \A n \in 1..Len(domCase.exec[1].doc) :
            n <= Len(domCase.exec[2].doc) =>
                getAttr(domCase.exec[1].doc[n], <<"style">>)
                    = getAttr(domCase.exec[2].doc[n], <<"style">>)

\* the place of an experiment in EXPERIMENT_IDS
ConfiguredIndex(e) == CHOOSE i \in 1..MaxExperiments : ExpId(i) = e

(***************************************************************************)
(* C21.  Every request visits the configured experiments in the order of   *)
(* EXPERIMENT_IDS: whenever an attempt starts, it is the attempt of the    *)
(* first configured experiment not visited yet.                           *)
(***************************************************************************)
C21_ConfiguredOrder ==
    [][\A e \in ExperimentIDs :
          (pc = "loop" /\ pc' = "resolve" /\ cur'.experimentID = e) =>
              \A f \in pending : ConfiguredIndex(e) <= ConfiguredIndex(f)]_vars

(***************************************************************************)
(* C22.  No retries: for each experiment of a request GetVariants is       *)
(* called at most once and GetTransformSpec at most once; when GetVariants *)
(* has failed GetTransformSpec is not called, and once the attempt has     *)
(* failed no further call is made for it.                                  *)
(***************************************************************************)
C22_NoRetries ==
    [][\A e \in ExperimentIDs :
          /\ Len(calls'[e].variants) <= 1
          /\ Len(calls'[e].specs) <= 1
          /\ (calls'[e].variants # <<>> /\ calls'[e].variants[1].err) =>
                calls'[e].specs = <<>>
          /\ outcome[e] \in FailureOutcomes => calls'[e] = calls[e]]_vars

\* an attempt whose spec fetch failed after a fresh assignment, the request
\* answered
C22_Witness ==
    \E e \in ExperimentIDs :
        /\ pc = "done"
        /\ outcome[e] = "spec-error"
        /\ Len(calls[e].variants) = 1
        /\ Len(calls[e].specs) = 1

(***************************************************************************)
(* C27.  Whatever the selector, the empty id of "#" and the empty value of *)
(* "[attr=]" included, every node findNodesBySelector returns is an        *)
(* element: never the document node, never a text node.                    *)
(***************************************************************************)
C27_OnlyElementsMatch ==
    domCase.resolved =>
        \A i \in 1..Len(domCase.nodes) :
            domCase.doc[domCase.nodes[i]].type = ElementNode

(***************************************************************************)
(* C30.  When ModifyResponse has returned, the Content-Length header and   *)
(* resp.ContentLength are the number of bytes resp.Body still yields,     *)
(* whatever stage succeeded or failed (stated for the responses that are   *)
(* passed on, ModifyResponse returning nil, and the origin's stream not    *)
(* itself broken).                                                         *)
(***************************************************************************)
C30_ContentLengthIsBodyLength ==
    (pc = "returned" /\ result = "nil" /\ bodyState # "broken") =>
        /\ contentLength = Readable.bytes.len
        /\ header["Content-Length"] = <<<<ToString(Readable.bytes.len)>>>>

\* the step in which execution x applies a batch of this one type of operation
RunsOne(x, type) ==
    Runs(x) /\ Len(domCase.ops) = 1 /\ domCase.ops[1].type = type

\* the tree execution x has after the step
TreeAfter(x) == domCase'.exec[x].doc

\* the nodes the operation of a one-operation batch resolves in x's tree
Matched(x) ==
    LET nodes == findNodesBySelector(TreeOf(x), domCase.ops[1].selector)
    IN  {nodes[i] : i \in 1..Len(nodes)}

\* the nodes of a tree that can be reached from its root
Reachable(doc) ==
    LET ids == preOrder(doc, Root) IN {ids[i] : i \in 1..Len(ids)}

(***************************************************************************)
(* C23.  After setText with value v every matched node has exactly one     *)
(* child, a new text node holding v; the children it had are detached; its *)
(* type, name and attributes are as before, and so is every node that is   *)
(* neither matched nor the child of a matched node.  This holds also when  *)
(* a matched node lies below another matched node.                         *)
(***************************************************************************)
C23_SetTextReplacesChildren ==
    [][\A x \in Executions :
          RunsOne(x, "setText") =>
              LET doc == TreeOf(x)
                  after == TreeAfter(x)
              IN  /\ Len(after) = Len(doc) + Cardinality(Matched(x))
                  /\ \A n \in Matched(x) :
                        /\ Len(after[n].kids) = 1
                        /\ after[n].kids[1] > Len(doc)
                        /\ after[after[n].kids[1]] =
                              MkNode(TextNode, domCase.ops[1].value, <<>>, <<>>, n)
                        /\ \A i \in 1..Len(doc[n].kids) :
                              after[doc[n].kids[i]].parent = Nil
                        /\ after[n].type = doc[n].type
                        /\ after[n].data = doc[n].data
                        /\ after[n].attr = doc[n].attr
                        /\ doc[n].parent \notin Matched(x) =>
                              after[n].parent = doc[n].parent
                  /\ \A m \in 1..Len(doc) :
                        (m \notin Matched(x) /\ doc[m].parent \notin Matched(x)) =>
                            after[m] = doc[m]]_vars

\* setText on [class] in the page: p.lead lies below div.box; both hold the
\* new text, p.lead is detached
C23_Witness ==
    /\ domCase.ops = <<Op(OpSetText, <<"[", "class", "]">>, <<"Hi">>, <<>>, 0)>>
    /\ domCase.exec[1].runs = 1
    /\ \E n, m \in 1..Len(domCase.doc) :
          LET after == domCase.exec[1].doc
          IN  /\ domCase.doc[m].parent = n
              /\ hasAttr(domCase.doc[n], <<"class">>)
              /\ hasAttr(domCase.doc[m], <<"class">>)
              /\ after[m].parent = Nil
              /\ Len(after[n].kids) = 1 /\ after[after[n].kids[1]].data = <<"Hi">>
              /\ Len(after[m].kids) = 1 /\ after[after[m].kids[1]].data = <<"Hi">>

(***************************************************************************)
(* C24.  After remove, a matched node that had a parent cannot be reached  *)
(* from the document root any more, and a matched node without parent (the *)
(* root) stays; when the same remove is applied again it finds none of the *)
(* detached nodes and leaves the tree as it is.                            *)
(***************************************************************************)
C24_RemoveDetaches ==
    [][\A x \in Executions :
          RunsOne(x, "remove") =>
              /\ \A n \in Matched(x) :
                    IF TreeOf(x)[n].parent # Nil
                    THEN n \notin Reachable(TreeAfter(x))
                    ELSE n = Root /\ n \in Reachable(TreeAfter(x))
              /\ domCase.exec[x].runs >= 1 =>
                    /\ \A n \in Matched(x) : TreeOf(x)[n].parent = Nil
                    /\ TreeAfter(x) = TreeOf(x)]_vars

\* remove applied twice with a selector that matches the document node too:
\* the root is in place, what was below it is detached
C24_Witness ==
    /\ domCase.ops = <<Op(OpRemove, <<"#">>, <<>>, <<>>, 0)>>
    /\ domCase.exec[1].runs = 2
    /\ domCase.exec[1].doc[Root].kids = <<>>
    /\ domCase.doc[Root].kids # <<>>
    /\ \A i \in 1..Len(domCase.doc[Root].kids) :
          domCase.exec[1].doc[domCase.doc[Root].kids[i]].parent = Nil

\* the number of nodes html.ParseFragment makes of a content
FragmentSize(content) ==
    Len(appendFragment(<<MkNode(ElementNode, <<"div">>, <<>>, <<>>, Nil)>>,
                       <<Root>>, content)) - 1

C25_LaterExperimentSeesEarlierRendering ==
    [][LET e == cur.experimentID
       IN  /\ (pc = "transform" /\ outcome'[e] = "hit") =>
                 /\ \E d \in InOrder({Parse(respBody)}, cur.operations) :
                       /\ ~RenderFails(d)
                       /\ respBody' = RenderHTML(d).body
                 /\ bodyState' = "memory"
                 /\ contentLength' = respBody'.len
                 /\ header'["Content-Length"] = <<<<ToString(respBody'.len)>>>>
           /\ (pc = "fetch" /\ outcome'[e] = "control") =>
                 /\ respBody' = respBody
                 /\ bodyState' = bodyState
                 /\ contentLength' = contentLength
                 /\ header'["Content-Length"] = header["Content-Length"]]_vars

\* two experiments transformed; the second removed the button the first had
\* marked, which the origin's document does not mark
C25_Witness ==
    /\ pc = "done"
    /\ \E e1, e2 \in ExperimentIDs :
          /\ outcome[e1] = "hit" /\ outcome[e2] = "hit"
          /\ calls[e1].specs[1].operations = SpecHit
          /\ calls[e2].specs[1].operations = SpecFollow
    /\ served.body = [bytes |-> respBody, complete |-> TRUE]
    /\ contentLength = respBody.len
    /\ \A n \in Reachable(respBody.tree) : respBody.tree[n].data # <<"button">>

\* the values of the response's Set-Cookie header
SetCookies(h) == {h["Set-Cookie"][i] : i \in 1..Len(h["Set-Cookie"])}

(***************************************************************************)
(* C29.  The assignment cookie is written at the assignment, before the    *)
(* spec fetch, and nothing is withdrawn: every step of ModifyResponse      *)
(* keeps the Set-Cookie values the response has (the origin's, those of    *)
(* earlier experiments, the attempt's own in whatever way the attempt      *)
(* ends), and the step of a fresh assignment adds the experiment's cookie. *)
(***************************************************************************)
C29_SetCookieIsNeverWithdrawn ==
    [][/\ SetCookies(header) \subseteq SetCookies(header')
       /\ (cur'.isNew /\ ~cur.isNew) =>
             AssignmentCookie(cur.experimentID, cur'.variantID)
                \in SetCookies(header')]_vars

(***************************************************************************)
(* C26.  Assignment is sticky through the cookie alone: when the first     *)
(* request of a client, sent without cookies, was freshly assigned variant *)
(* v for an experiment and the client sends the cookies of the response    *)
(* back, the second request resolves that experiment to v, makes no        *)
(* GetVariants call for it and calls GetTransformSpec with v, whatever the *)
(* variant list would be by then.                                          *)
(***************************************************************************)
C26_AssignmentIsSticky ==
    session.request = 2 =>
        \A e \in ExperimentIDs :
            session.assigned[e] # <<>> =>
                /\ RequestCookie(reqCookies, <<"ef_var_">> \o e)
                      = [found |-> TRUE, value |-> session.assigned[e]]
                /\ calls[e].variants = <<>>
                /\ \A i \in 1..Len(calls[e].specs) :
                      calls[e].specs[i].variantID = session.assigned[e]
                /\ (cur.experimentID = e /\ pc \in {"fetch", "transform"}) =>
                      cur.variantID = session.assigned[e]
                /\ outcome[e] # "none" => Len(calls[e].specs) = 1

\* the second request of a client that was assigned vB: answered, the spec
\* of vB fetched, GetVariants not called
C26_Witness ==
    /\ session.request = 2
    /\ pc = "done"
    /\ \E e \in ExperimentIDs :
          /\ session.assigned[e] = VariantB.id
          /\ calls[e].variants = <<>>
          /\ Len(calls[e].specs) = 1
          /\ calls[e].specs[1].variantID = VariantB.id

=============================================================================
